---- MODULE Spec2Model ----
(***************************************************************************)
(* The head runtime of a pod (jina/peapods/runtimes/head/__init__.py):     *)
(* the gRPC entry point Call, the control commands ACTIVATE / DEACTIVATE / *)
(* TERMINATE against the connection pool, the data path                    *)
(* uses_before -> workers -> uses_after / merge, the shutdown of the       *)
(* server, and the static readiness probe.                                 *)
(*                                                                         *)
(* The event loop is single threaded: code between two awaits is one       *)
(* step.  A Call that ends hands its outcome to the transport in `ret`     *)
(* before the loop runs anything else.                                     *)
(***************************************************************************)
EXTENDS Integers, Sequences, FiniteSets, TLC

\* ------------------------------------------------------------------ bounds
MaxBatch == 2        \* longest Control batch
MaxBusyBatch == 1    \* longest Control batch sent while a Data call is in flight
MaxTicks == 3        \* poll intervals a readiness wait is followed for
MaxTimeout == 2      \* longest timeout of a readiness wait, in poll intervals

\* ------------------------------------------------------------------ values
None == "None"       \* Python's None for a result, an exception, a command
NoAddress == ""      \* an address that is not configured (falsy)
NoShard == -1        \* Python's None for a shard_id

\* A protobuf RelatedEntity: an absent optional shard_id reads as 0.
RelatedEntity(address, port, has_shard_id, shard_id) ==
    [address |-> address, port |-> port, has_shard_id |-> has_shard_id,
     shard_id |-> IF has_shard_id THEN shard_id ELSE 0]

RelatedEntities ==
    { RelatedEntity("a", 1, FALSE, 0), RelatedEntity("a", 1, TRUE, 0),
      RelatedEntity("b", 1, TRUE, 0) }

EntityLists ==
    { <<e>> : e \in RelatedEntities }

Commands == {"ACTIVATE", "DEACTIVATE", "TERMINATE", "IDLE"}

ControlMessage(cmd, ents) ==
    [request_type |-> "ControlRequest", command |-> cmd,
     relatedEntities |-> ents, envelope |-> cmd, docs |-> <<>>]

DataMessage(env, docs) ==
    [request_type |-> "DataRequest", command |-> None,
     relatedEntities |-> <<>>, envelope |-> env, docs |-> docs]

NoMsg ==
    [request_type |-> None, command |-> None,
     relatedEntities |-> <<>>, envelope |-> None, docs |-> <<>>]

ControlMessages ==
    { ControlMessage(c, l) : c \in {"ACTIVATE", "DEACTIVATE"}, l \in EntityLists }
    \cup { ControlMessage("TERMINATE", <<>>), ControlMessage("IDLE", <<>>) }

SeqsUpTo(S, n) == UNION { [1..k -> S] : k \in 1..n }

ControlBatches == SeqsUpTo(ControlMessages, MaxBatch)

DataBatches ==
    { <<DataMessage("m1", <<10>>)>>,
      <<DataMessage("m1", <<10>>), DataMessage("m2", <<11, 12>>)>> }

\* ------------------------------------------------- connection pool (contract)
\* A registration (role, address, shard_id?) held by the connection pool.
Connection(pod, address, shard_id) ==
    [pod |-> pod, address |-> address, shard_id |-> shard_id]

\* AddConnection: registering an endpoint that is present changes nothing.
add_connection(conns, pod, address, shard_id) ==
    conns \cup {Connection(pod, address, shard_id)}

\* RemoveConnection: removes the matching registration; absent is no failure.
remove_connection(conns, pod, address, shard_id) ==
    conns \ {Connection(pod, address, shard_id)}

Workers(conns) == { c \in conns : c.pod = "worker" }

\* SendFanOut: the sets of endpoints one fan-out may dispatch to.  ALL: every
\* registered worker endpoint; ANY: one endpoint of every shard group.
send_messages(conns, polling_type) ==
    IF polling_type = "ALL"
    THEN { Workers(conns) }
    ELSE { S \in SUBSET Workers(conns) :
             \A w \in Workers(conns) :
                Cardinality({ t \in S : t.shard_id = w.shard_id }) = 1 }

\* What a worker endpoint answers: its own envelope and documents.
WorkerDocs(t) ==
    IF t.shard_id = NoShard THEN <<1, 2>>
    ELSE IF t.address = "a:1" THEN <<3>> ELSE <<>>

WorkerReply(t) ==
    DataMessage(t.address \o "/" \o ToString(t.shard_id), WorkerDocs(t))

\* The single reply of the uses_before stage to a batch.
RECURSIVE AllDocs(_)
AllDocs(messages) ==
    IF messages = <<>> THEN <<>>
    ELSE Head(messages).docs \o AllDocs(Tail(messages))

UsesBeforeReply(messages) == DataMessage("uses_before", AllDocs(messages))

\* The replies the uses_after stage may give.
UsesAfterReplies ==
    { DataMessage("uses_after", <<>>), DataMessage("uses_after", <<7>>) }

\* ------------------------------------------------------- control commands
connection_string(relatedEntity) ==
    relatedEntity.address \o ":" \o ToString(relatedEntity.port)

\* ACTIVATE passes the shard_id only when the field is set.
ActivateShard(relatedEntity) ==
    IF relatedEntity.has_shard_id THEN relatedEntity.shard_id ELSE NoShard

\* DEACTIVATE passes the field as read: 0 when it is absent.
DeactivateShard(relatedEntity) == relatedEntity.shard_id

\* Mutant: ACTIVATE registers under the role of the last registration of
\* __init__.
Activate_AsUsesAfter(conns, entities) ==
    conns \cup { Connection("uses_after", connection_string(entities[i]),
                            ActivateShard(entities[i]))
                 : i \in 1..Len(entities) }

RECURSIVE Activate(_, _)
Activate(conns, entities) ==
    IF entities = <<>> THEN conns
    ELSE Activate(add_connection(conns, "worker",
                                 connection_string(Head(entities)),
                                 ActivateShard(Head(entities))),
                  Tail(entities))

RECURSIVE Deactivate(_, _)
Deactivate(conns, entities) ==
    IF entities = <<>> THEN conns
    ELSE Deactivate(remove_connection(conns, "worker",
                                      connection_string(Head(entities)),
                                      DeactivateShard(Head(entities))),
                    Tail(entities))

\* Mutant: a command that is not known is rejected.
handle_control_request_RejectsUnknown(conns, msg) ==
    IF msg.command = "TERMINATE"
    THEN [conns |-> conns, exc |-> "RuntimeTerminated", result |-> NoMsg]
    ELSE IF msg.command = "ACTIVATE"
    THEN [conns |-> Activate(conns, msg.relatedEntities), exc |-> None,
          result |-> msg]
    ELSE IF msg.command = "DEACTIVATE"
    THEN [conns |-> Deactivate(conns, msg.relatedEntities), exc |-> None,
          result |-> msg]
    ELSE [conns |-> conns, exc |-> "ValueError", result |-> NoMsg]

\* _handle_control_request: the pool after the command, the exception it
\* raises (None: it returns) and the message it returns.
handle_control_request(conns, msg) ==
    IF msg.command = "TERMINATE"
    THEN [conns |-> conns, exc |-> "RuntimeTerminated", result |-> NoMsg]
    ELSE IF msg.command = "ACTIVATE"
    THEN [conns |-> Activate(conns, msg.relatedEntities), exc |-> None,
          result |-> msg]
    ELSE IF msg.command = "DEACTIVATE"
    THEN [conns |-> Deactivate(conns, msg.relatedEntities), exc |-> None,
          result |-> msg]
    ELSE [conns |-> conns, exc |-> None, result |-> msg]

\* Mutant: the batch is taken last message first.
ControlOrder_Reversed(messages) ==
    [i \in 1..Len(messages) |-> Len(messages) + 1 - i]

\* The order in which _handle_messages takes the messages of a Control batch.
ControlOrder(messages) == [i \in 1..Len(messages) |-> i]

\* The loop of _handle_messages over a Control batch: `order` are the
\* positions still to process, `handled` those processed so far.
RECURSIVE ControlLoop(_, _, _, _, _)
ControlLoop(conns, messages, order, handled, last_response) ==
    IF order = <<>>
    THEN [conns |-> conns, exc |-> None, result |-> last_response,
          handled |-> handled]
    ELSE LET r == handle_control_request(conns, messages[Head(order)])
         IN  IF r.exc # None
             THEN [conns |-> r.conns, exc |-> r.exc, result |-> NoMsg,
                   handled |-> Append(handled, Head(order))]
             ELSE ControlLoop(r.conns, messages, Tail(order),
                              Append(handled, Head(order)), r.result)

\* Mutant: a batch that raises leaves the pool as it found it.
handle_messages_control_RollsBack(conns, messages) ==
    LET r == ControlLoop(conns, messages, ControlOrder(messages), <<>>, NoMsg)
    IN  IF r.exc # None THEN [r EXCEPT !.conns = conns] ELSE r

handle_messages_control(conns, messages) ==
    ControlLoop(conns, messages, ControlOrder(messages), <<>>, NoMsg)

\* Mutant: RuntimeTerminated is caught and the cancel event is not set.
CallOutcome_NoCancel(exc, result) ==
    IF exc = None
    THEN [outcome |-> "return", response |-> result, cancel |-> FALSE,
          logged |-> FALSE]
    ELSE IF exc = "RuntimeTerminated"
    THEN [outcome |-> "return_none", response |-> NoMsg, cancel |-> FALSE,
          logged |-> FALSE]
    ELSE [outcome |-> "raise", response |-> NoMsg, cancel |-> FALSE,
          logged |-> TRUE]

\* Mutant: RuntimeTerminated sets the cancel event and is then logged and
\* re-raised like any other exception.
CallOutcome_TerminateReraised(exc, result) ==
    IF exc = None
    THEN [outcome |-> "return", response |-> result, cancel |-> FALSE,
          logged |-> FALSE]
    ELSE [outcome |-> "raise", response |-> NoMsg,
          cancel |-> (exc = "RuntimeTerminated"), logged |-> TRUE]

\* Mutant: every exception is taken for the termination signal.
CallOutcome_AnyTerminates(exc, result) ==
    IF exc = None
    THEN [outcome |-> "return", response |-> result, cancel |-> FALSE,
          logged |-> FALSE]
    ELSE [outcome |-> "return_none", response |-> NoMsg, cancel |-> TRUE,
          logged |-> FALSE]

\* Call's try/except around _handle_messages: how the call ends for the
\* transport, whether it sets the cancel event and whether it logs an error.
CallOutcome(exc, result) ==
    IF exc = None
    THEN [outcome |-> "return", response |-> result, cancel |-> FALSE,
          logged |-> FALSE]
    ELSE IF exc = "RuntimeTerminated"
    THEN [outcome |-> "return_none", response |-> NoMsg, cancel |-> TRUE,
          logged |-> FALSE]
    ELSE [outcome |-> "raise", response |-> NoMsg, cancel |-> FALSE,
          logged |-> TRUE]

\* -------------------------------------------------------------------- state
VARIABLES
    uses_before_address,   \* args.uses_before_address
    uses_after_address,    \* args.uses_after_address
    polling,               \* args.polling
    connections,           \* the registrations of the connection pool
    is_cancel,             \* the cancel event
    server,                \* the gRPC server: "serving" or "stopped"
    run_forever,           \* async_run_forever: "waiting" or "returned"
    calls,                 \* the Data calls in flight, by slot
    ret,                   \* the Call that has just ended, for the transport
    target,                \* the control address a probe is sent to
    shutdown_event,        \* the event a readiness wait watches
    ready,                 \* the last is_ready call of a supervisor
    wait                   \* a wait_for_ready_or_shutdown call

hvars == <<uses_before_address, uses_after_address, polling, connections,
           is_cancel, server, run_forever, calls, ret>>

pvars == <<target, shutdown_event, ready, wait>>

vars == <<hvars, pvars>>

\* The slots of the Data calls in flight: one call at a time is followed.
CallIds == {"call"}

IdleCall ==
    [pc |-> "idle", batch |-> <<>>, messages |-> <<>>, tasks |-> {},
     pending |-> {}, worker_results |-> <<>>, before_calls |-> <<>>]

NoRet ==
    [kind |-> None, batch |-> <<>>, outcome |-> None, response |-> NoMsg,
     logged |-> FALSE, exc |-> None, pre |-> {}, handled |-> <<>>,
     messages |-> <<>>, tasks |-> {}, worker_results |-> <<>>,
     before_calls |-> <<>>, after_calls |-> <<>>, after_reply |-> NoMsg]

\* __init__: the configured stages are registered before the server serves.
HeadInit ==
    /\ uses_before_address \in {NoAddress, "ub:1"}
    /\ uses_after_address \in {NoAddress, "ua:1"}
    /\ polling \in {"ANY", "ALL"}
    /\ connections =
          (IF uses_before_address # NoAddress
           THEN {Connection("uses_before", uses_before_address, NoShard)}
           ELSE {})
          \cup
          (IF uses_after_address # NoAddress
           THEN {Connection("uses_after", uses_after_address, NoShard)}
           ELSE {})
    /\ is_cancel = FALSE
    /\ server = "serving"
    /\ run_forever = "waiting"
    /\ calls = [c \in CallIds |-> IdleCall]
    /\ ret = NoRet

\* The loop is free: no Call is between its end and the transport.
LoopFree == ret = NoRet

\* A Call ends: Call's try/except decides the outcome, the transport gets it.
EndCall(kind, batch, exc, result, extra) ==
    LET o == CallOutcome(exc, result)
    IN  /\ ret' = [extra EXCEPT !.kind = kind, !.batch = batch,
                                !.outcome = o.outcome,
                                !.response = o.response,
                                !.logged = o.logged, !.exc = exc]
        /\ is_cancel' = (is_cancel \/ o.cancel)

\* Call with a Control batch: no await inside, one step of the loop.
CallControl(messages) ==
    /\ server = "serving"
    /\ LoopFree
    /\ Len(messages) > MaxBusyBatch => \A c \in CallIds : calls[c].pc = "idle"
    /\ LET r == handle_messages_control(connections, messages)
       IN  /\ connections' = r.conns
           /\ EndCall("control", messages, r.exc, r.result,
                      [NoRet EXCEPT !.pre = connections,
                                    !.handled = r.handled])
    /\ UNCHANGED <<pvars, uses_before_address, uses_after_address, polling, server,
                   run_forever, calls>>

\* Call with an empty batch: _handle_messages reads messages[0].
CallEmpty ==
    /\ server = "serving"
    /\ LoopFree
    /\ EndCall("empty", <<>>, "IndexError", NoMsg, NoRet)
    /\ UNCHANGED <<pvars, uses_before_address, uses_after_address, polling,
                   connections, server, run_forever, calls>>

\* ------------------------------------------------------------- data path
RECURSIVE Reverse(_)
Reverse(s) == IF s = <<>> THEN <<>> ELSE Append(Reverse(Tail(s)), Head(s))

\* DataRequestHandler.replace_docs: the message with its documents replaced.
replace_docs(msg, docs) == [msg EXCEPT !.docs = docs]

\* Mutant: the merge takes the partial requests in completion order.
MergeOrder_Unreversed(partial_requests) == partial_requests

\* The order in which the merge takes the partial requests.
MergeOrder(partial_requests) == Reverse(partial_requests)

\* The head's own merge of more than one worker result.
LocalMerge(worker_results) ==
    replace_docs(worker_results[1], AllDocs(MergeOrder(worker_results)))

\* Mutant: the head merges several results itself before it looks for
\* uses_after.
MergeBranch_MergeFirst(worker_results, after_address) ==
    IF Len(worker_results) > 1 THEN "merge"
    ELSE IF after_address # NoAddress THEN "uses_after"
    ELSE IF Len(worker_results) = 1 THEN "single"
    ELSE "error"

\* Mutant: the branch for exactly one result is missing.
MergeBranch_NoSingle(worker_results, after_address) ==
    IF after_address # NoAddress THEN "uses_after"
    ELSE IF Len(worker_results) > 1 THEN "merge"
    ELSE "error"

\* Mutant: uses_after is asked only when more than one result came in.
MergeBranch_UsesAfterOnlyMany(worker_results, after_address) ==
    IF Len(worker_results) > 1
    THEN IF after_address # NoAddress THEN "uses_after" ELSE "merge"
    ELSE IF Len(worker_results) = 1 THEN "single"
    ELSE "error"

\* Which way _handle_data_requests produces its response.
MergeBranch(worker_results, after_address) ==
    IF after_address # NoAddress THEN "uses_after"
    ELSE IF Len(worker_results) > 1 THEN "merge"
    ELSE IF Len(worker_results) = 1 THEN "single"
    ELSE "error"

RetOf(slot) ==
    [NoRet EXCEPT !.messages = slot.messages, !.tasks = slot.tasks,
                  !.worker_results = slot.worker_results,
                  !.before_calls = slot.before_calls]

\* Every dispatched operation has completed: the code after the join, up to
\* its next await (the uses_after call) or the end of the Call.
AfterJoin(c, slot) ==
    LET branch == MergeBranch(slot.worker_results, uses_after_address)
    IN  IF branch = "uses_after"
        THEN /\ calls' = [calls EXCEPT ![c] = [slot EXCEPT !.pc = "after"]]
             /\ UNCHANGED <<ret, is_cancel>>
        ELSE /\ calls' = [calls EXCEPT ![c] = IdleCall]
             /\ IF branch = "merge"
                THEN EndCall("data", slot.batch, None,
                             LocalMerge(slot.worker_results), RetOf(slot))
                ELSE IF branch = "single"
                THEN EndCall("data", slot.batch, None,
                             slot.worker_results[1], RetOf(slot))
                ELSE EndCall("data", slot.batch, "RuntimeError", NoMsg,
                             RetOf(slot))

\* send_messages and the join of its tasks, as far as the loop gets without
\* waiting: with no task dispatched the join is over at once.
Dispatch(c, slot) ==
    \E tasks \in send_messages(connections, polling) :
        LET s == [slot EXCEPT !.pc = "join", !.tasks = tasks,
                              !.pending = tasks, !.worker_results = <<>>]
        IN  IF tasks = {}
            THEN AfterJoin(c, s)
            ELSE /\ calls' = [calls EXCEPT ![c] = s]
                 /\ UNCHANGED <<ret, is_cancel>>

\* Call with a Data batch, up to its first await.
CallData(c, batch) ==
    /\ server = "serving"
    /\ LoopFree
    /\ calls[c].pc = "idle"
    /\ IF uses_before_address # NoAddress
       THEN /\ calls' = [calls EXCEPT ![c] =
                   [IdleCall EXCEPT !.pc = "before", !.batch = batch,
                                    !.before_calls = <<batch>>]]
            /\ UNCHANGED <<ret, is_cancel>>
       ELSE Dispatch(c, [IdleCall EXCEPT !.batch = batch,
                                         !.messages = batch])
    /\ UNCHANGED <<pvars, uses_before_address, uses_after_address, polling,
                   connections, server, run_forever>>

\* Mutant: the uses_before reply is added to the batch.
PreStageMessages_Appended(messages, reply) == Append(messages, reply)

\* messages = [await send_messages_once(messages, pod='uses_before')]
PreStageMessages(messages, reply) == <<reply>>

\* The uses_before reply arrives: it replaces the batch, then the fan-out.
UsesBeforeDone(c) ==
    /\ LoopFree
    /\ calls[c].pc = "before"
    /\ Dispatch(c, [calls[c] EXCEPT
                      !.messages = PreStageMessages(calls[c].batch,
                                       UsesBeforeReply(calls[c].batch))])
    /\ UNCHANGED <<pvars, uses_before_address, uses_after_address, polling,
                   connections, server, run_forever>>

\* A stage or a worker fails: the await raises inside the Call.
SendFails(c) ==
    /\ LoopFree
    /\ calls[c].pc \in {"before", "join", "after"}
    /\ calls' = [calls EXCEPT ![c] = IdleCall]
    /\ EndCall("data", calls[c].batch, "RpcError", NoMsg,
               [RetOf(calls[c]) EXCEPT !.after_calls =
                   IF calls[c].pc = "after"
                   THEN <<calls[c].worker_results>> ELSE <<>>])
    /\ UNCHANGED <<pvars, uses_before_address, uses_after_address, polling,
                   connections, server, run_forever>>

\* Mutant: the join follows the workers registered now, not those
\* dispatched to.
JoinTasks_Registered(pending, conns) == pending \cap Workers(conns)

\* The operations as_completed still waits for: those of the list
\* send_messages returned, whatever the pool holds by now.
JoinTasks(pending, conns) == pending

\* Mutant: the join ends with the first result.
JoinComplete_First(pending, conns) == TRUE

\* The comprehension over as_completed ends when no operation is left.
JoinComplete(pending, conns) == JoinTasks(pending, conns) = {}

\* One dispatched operation completes: as_completed hands its result over.
WorkerDone(c, t) ==
    /\ LoopFree
    /\ calls[c].pc = "join"
    /\ t \in JoinTasks(calls[c].pending, connections)
    /\ LET s == [calls[c] EXCEPT
                   !.pending = @ \ {t},
                   !.worker_results = Append(@, WorkerReply(t))]
       IN  IF JoinComplete(s.pending, connections)
           THEN AfterJoin(c, s)
           ELSE /\ calls' = [calls EXCEPT ![c] = s]
                /\ UNCHANGED <<ret, is_cancel>>
    /\ UNCHANGED <<pvars, uses_before_address, uses_after_address, polling,
                   connections, server, run_forever>>

\* The uses_after reply arrives: it is the response.
UsesAfterDone(c, reply) ==
    /\ LoopFree
    /\ calls[c].pc = "after"
    /\ calls' = [calls EXCEPT ![c] = IdleCall]
    /\ EndCall("data", calls[c].batch, None, reply,
               [RetOf(calls[c]) EXCEPT
                  !.after_calls = <<calls[c].worker_results>>,
                  !.after_reply = reply])
    /\ UNCHANGED <<pvars, uses_before_address, uses_after_address, polling,
                   connections, server, run_forever>>

\* The transport takes the outcome of the Call that ended.
Return ==
    /\ ret # NoRet
    /\ ret' = NoRet
    /\ UNCHANGED <<pvars, uses_before_address, uses_after_address, polling,
                   connections, is_cancel, server, run_forever, calls>>

\* ------------------------------------------------------------- life cycle
\* The cancel event is set from outside the runtime.
ExternalCancel ==
    /\ LoopFree
    /\ ~is_cancel
    /\ run_forever = "waiting"
    /\ is_cancel' = TRUE
    /\ UNCHANGED <<pvars, uses_before_address, uses_after_address, polling,
                   connections, server, run_forever, calls, ret>>

\* async_cancel, once the cancel event is seen: the server stops with no
\* grace, the calls in flight are dropped.
async_cancel ==
    /\ LoopFree
    /\ is_cancel
    /\ server = "serving"
    /\ server' = "stopped"
    /\ calls' = [c \in CallIds |-> IdleCall]
    /\ UNCHANGED <<pvars, uses_before_address, uses_after_address, polling,
                   connections, is_cancel, run_forever, ret>>

\* async_run_forever: wait_for_termination returns once the server stopped.
async_run_forever ==
    /\ LoopFree
    /\ server = "stopped"
    /\ run_forever = "waiting"
    /\ run_forever' = "returned"
    /\ UNCHANGED <<pvars, uses_before_address, uses_after_address, polling,
                   connections, is_cancel, server, calls, ret>>

\* ------------------------------------------------------- readiness probe
\* An optional value: <<>> is Python's None.
Some(x) == <<x>>

\* The timeouts a wait is called with, in poll intervals of 100 ms.
Timeouts == {<<>>} \cup { Some(t) : t \in 0..MaxTimeout }

\* GrpcConnectionPool.send_message_sync of the STATUS probe: the exception
\* it raises, None when the round trip succeeds.
send_message_sync(address_state) ==
    IF address_state = "up" THEN None
    ELSE IF address_state = "down" THEN "RpcError"
    ELSE "ValueError"

\* Mutant: is_ready has no except clause.
IsReadyCatches_Nothing(exc) == FALSE

\* The exceptions is_ready turns into False.
IsReadyCatches(exc) == exc = "RpcError"

\* is_ready: the exception that leaves it (None: it returns) and its value.
is_ready(address_state) ==
    LET exc == send_message_sync(address_state)
    IN  IF exc = None THEN [exc |-> None, value |-> TRUE]
        ELSE IF IsReadyCatches(exc) THEN [exc |-> None, value |-> FALSE]
        ELSE [exc |-> exc, value |-> FALSE]

\* Mutant: the condition of timeout_ns is inverted, no timeout is kept.
timeout_ns_Dropped(timeout) == <<>>

\* timeout_ns: None when the timeout is None or 0.
timeout_ns(timeout) ==
    IF timeout # <<>> /\ timeout[1] # 0 THEN timeout ELSE <<>>

NoReady == [called |-> FALSE, sent |-> None, exc |-> None, value |-> FALSE]

IdleWait ==
    [pc |-> "idle", timeout |-> <<>>, timeout_ns |-> <<>>, elapsed |-> 0,
     polls |-> 0, value |-> FALSE, exc |-> None]

\* The runtime behind the control address is not up yet.
ProbeInit ==
    /\ target = "down"
    /\ shutdown_event = FALSE
    /\ ready = NoReady
    /\ wait = IdleWait

Init == HeadInit /\ ProbeInit

\* A supervisor calls is_ready.
IsReady ==
    /\ LET r == is_ready(target)
       IN  ready' = [called |-> TRUE, sent |-> send_message_sync(target),
                     exc |-> r.exc, value |-> r.value]
    /\ UNCHANGED <<hvars, target, shutdown_event, wait>>

\* wait_for_ready_or_shutdown is called: timeout_ns and now are taken.
WaitStart(timeout) ==
    /\ wait.pc = "idle"
    /\ wait' = [IdleWait EXCEPT !.pc = "loop", !.timeout = timeout,
                                !.timeout_ns = timeout_ns(timeout)]
    /\ UNCHANGED <<hvars, target, shutdown_event, ready>>

\* Mutant: the probe is sent before the shutdown event is looked at.
PollOutcome_ProbeFirst(shutdown_set, address_state) ==
    LET r == is_ready(address_state)
    IN  IF r.exc # None THEN r
        ELSE [exc |-> None, value |-> r.value \/ shutdown_set]

\* shutdown_event.is_set() or is_ready(ctrl_address): the probe is only sent
\* when the event is not set.
PollOutcome(shutdown_set, address_state) ==
    IF shutdown_set THEN [exc |-> None, value |-> TRUE]
    ELSE is_ready(address_state)

\* One test of the while condition and, inside the loop, of the two signals.
WaitPoll ==
    /\ wait.pc = "loop"
    /\ IF wait.timeout_ns = <<>> \/ wait.elapsed < wait.timeout_ns[1]
       THEN LET r == PollOutcome(shutdown_event, target)
            IN  IF r.exc # None
                THEN wait' = [wait EXCEPT !.pc = "raised", !.exc = r.exc,
                                          !.polls = @ + 1]
                ELSE IF r.value
                THEN wait' = [wait EXCEPT !.pc = "returned", !.value = TRUE,
                                          !.polls = @ + 1]
                ELSE wait' = [wait EXCEPT !.pc = "sleep", !.polls = @ + 1]
       ELSE wait' = [wait EXCEPT !.pc = "returned", !.value = FALSE]
    /\ UNCHANGED <<hvars, target, shutdown_event, ready>>

\* time.sleep(0.1): one poll interval passes.
WaitSleep ==
    /\ wait.pc = "sleep"
    /\ wait.elapsed < MaxTicks
    /\ wait' = [wait EXCEPT !.pc = "loop", !.elapsed = @ + 1]
    /\ UNCHANGED <<hvars, target, shutdown_event, ready>>

\* The watched process sets the shutdown event.
SetShutdown ==
    /\ ~shutdown_event
    /\ shutdown_event' = TRUE
    /\ UNCHANGED <<hvars, target, ready, wait>>

\* The runtime behind the control address comes up or goes away.
TargetChanges(address_state) ==
    /\ address_state # target
    /\ target' = address_state
    /\ UNCHANGED <<hvars, shutdown_event, ready, wait>>

ProbeNext ==
    \/ IsReady
    \/ \E timeout \in Timeouts : WaitStart(timeout)
    \/ WaitPoll
    \/ WaitSleep
    \/ SetShutdown
    \/ \E address_state \in {"up", "down", "broken"} :
          TargetChanges(address_state)

ProbeSpec == Init /\ [][ProbeNext]_vars

\* wait_for_ready_or_shutdown is a sequential loop of the calling thread: the
\* thread goes on to the next test of the loop and time.sleep(0.1) returns.
FairProbeSpec ==
    /\ ProbeSpec
    /\ WF_vars(WaitPoll)
    /\ WF_vars(WaitSleep)

Next ==
    \/ \E messages \in ControlBatches : CallControl(messages)
    \/ CallEmpty
    \/ \E c \in CallIds, batch \in DataBatches : CallData(c, batch)
    \/ \E c \in CallIds : UsesBeforeDone(c)
    \/ \E c \in CallIds : \E t \in calls[c].pending : WorkerDone(c, t)
    \/ \E c \in CallIds, reply \in UsesAfterReplies : UsesAfterDone(c, reply)
    \/ \E c \in CallIds : SendFails(c)
    \/ Return
    \/ ExternalCancel
    \/ async_cancel
    \/ async_run_forever

Spec == Init /\ [][Next]_vars

\* The event loop runs its ready callbacks first in, first out: the task that
\* waits for the cancel event is not starved by Calls that keep arriving
\* (strong fairness of async_cancel); the transport takes an ended Call and
\* wait_for_termination returns once they can (weak fairness).
FairSpec ==
    /\ Spec
    /\ WF_vars(Return)
    /\ SF_vars(async_cancel)
    /\ WF_vars(async_run_forever)

\* ==================================================================== claims
\* A Data call has just ended after its fan-out collected the result of
\* every operation it dispatched.
DataEnded ==
    /\ ret.kind = "data"
    /\ ret.messages # <<>>
    /\ Len(ret.worker_results) = Cardinality(ret.tasks)

\* The documents of the replies, last reply first.
RECURSIVE RevConcatDocs(_)
RevConcatDocs(results) ==
    IF results = <<>> THEN <<>>
    ELSE RevConcatDocs(Tail(results)) \o Head(results).docs

RECURSIVE SumDocs(_)
SumDocs(results) ==
    IF results = <<>> THEN 0
    ELSE Len(Head(results).docs) + SumDocs(Tail(results))

\* C1: with no uses_after and N > 1 worker replies collected in completion
\* order R[0..N-1], the Call returns R[0]'s envelope with the documents
\* docs(R[N-1]) ++ ... ++ docs(R[0]); their number is the sum of the replies'
\* document counts.  Every reachable completion order is covered.
C1_LocalMergeReversed ==
    (DataEnded /\ uses_after_address = NoAddress /\ Len(ret.worker_results) > 1)
    => /\ ret.outcome = "return"
       /\ ret.response.envelope = ret.worker_results[1].envelope
       /\ ret.response.request_type = ret.worker_results[1].request_type
       /\ ret.response.docs = RevConcatDocs(ret.worker_results)
       /\ Len(ret.response.docs) = SumDocs(ret.worker_results)
       /\ ret.after_calls = <<>>

\* Three replies merged, the first completed being the one without documents.
C1_Witness ==
    /\ DataEnded /\ uses_after_address = NoAddress
    /\ Len(ret.worker_results) = 3
    /\ ret.worker_results[1].docs = <<>>
    /\ ret.worker_results[2].docs = <<1, 2>>
    /\ ret.response.docs = <<3, 1, 2>>

\* C2 (as claimed): a Data call whose fan-out collects zero results, because
\* no worker is registered, fails with the head's RuntimeError and returns no
\* message, with or without uses_before and uses_after.
C2_ZeroResultsFatal ==
    (DataEnded /\ ret.tasks = {} /\ ret.worker_results = <<>>)
    => /\ ret.exc = "RuntimeError"
       /\ ret.outcome = "raise"
       /\ ret.response = NoMsg

\* The pool after the commands of a batch, taken first to last.
RECURSIVE ApplyInOrder(_, _)
ApplyInOrder(conns, messages) ==
    IF messages = <<>> THEN conns
    ELSE ApplyInOrder(handle_control_request(conns, Head(messages)).conns,
                      Tail(messages))

HasTerminate(messages) ==
    \E i \in 1..Len(messages) : messages[i].command = "TERMINATE"

\* C3: a Control batch without TERMINATE is applied to the pool one command
\* at a time in batch order, and the Call returns the result of its last
\* command only.
C3_ControlInOrderLastResult ==
    (ret.kind = "control" /\ ~HasTerminate(ret.batch))
    => /\ ret.handled = [i \in 1..Len(ret.batch) |-> i]
       /\ connections = ApplyInOrder(ret.pre, ret.batch)
       /\ ret.outcome = "return"
       /\ ret.response = ret.batch[Len(ret.batch)]

\* DEACTIVATE(e) then ACTIVATE(e) on a pool without e: taken in batch order
\* e ends up registered, and the second command is the response.
C3_Witness ==
    /\ ret.kind = "control" /\ Len(ret.batch) = 2
    /\ ret.batch[1].command = "DEACTIVATE"
    /\ ret.batch[2].command = "ACTIVATE"
    /\ ret.batch[1].relatedEntities = ret.batch[2].relatedEntities
    /\ ret.batch[2].relatedEntities[1].has_shard_id
    /\ Workers(connections) # Workers(ret.pre)
    /\ ret.response = ret.batch[2]

\* C4 (as claimed): ACTIVATE(e) then DEACTIVATE(e), for e with or without a
\* shard_id and from any pool, leaves the workers of the pool as before.
C4_ActivateDeactivateRestores ==
    (/\ ret.kind = "control" /\ Len(ret.batch) = 2
     /\ ret.batch[1].command = "ACTIVATE"
     /\ ret.batch[2].command = "DEACTIVATE"
     /\ ret.batch[1].relatedEntities = ret.batch[2].relatedEntities)
    => Workers(connections) = Workers(ret.pre)

\* C5: with uses_after configured and N > 1 replies collected, the N replies
\* go to uses_after together in one call and the Call returns exactly the
\* uses_after reply, no merged documents.
C5_UsesAfterReplyReturned ==
    (/\ DataEnded /\ uses_after_address # NoAddress
     /\ Len(ret.worker_results) > 1 /\ ret.exc = None)
    => /\ ret.after_calls = <<ret.worker_results>>
       /\ ret.outcome = "return"
       /\ ret.response = ret.after_reply
       /\ ret.after_reply \in UsesAfterReplies

\* Two replies carrying documents, and uses_after answers with none of them.
C5_Witness ==
    /\ DataEnded /\ uses_after_address # NoAddress
    /\ Len(ret.worker_results) = 2
    /\ RevConcatDocs(ret.worker_results) = <<3, 1, 2>>
    /\ ret.outcome = "return"
    /\ ret.response = DataMessage("uses_after", <<7>>)

\* C6: with no uses_after and exactly one reply collected, the Call returns
\* that reply, envelope and documents unchanged.
C6_SingleReplyUnchanged ==
    (DataEnded /\ uses_after_address = NoAddress /\ Cardinality(ret.tasks) = 1)
    => /\ ret.outcome = "return"
       /\ ret.after_calls = <<>>
       /\ \A t \in ret.tasks : ret.response = WorkerReply(t)

C6_Witness ==
    /\ DataEnded /\ uses_after_address = NoAddress
    /\ Cardinality(ret.tasks) = 1
    /\ ret.outcome = "return"
    /\ ret.response.docs = <<1, 2>>

Stopped == server = "stopped" /\ run_forever = "returned"

\* C7: once a Call has processed TERMINATE the cancel event is set and stays
\* set; with the serving task scheduled, the server is then stopped and
\* async_run_forever returns; a stopped server processes no Call.
C7_TerminateStopsServing ==
    /\ [](ret.exc = "RuntimeTerminated" => is_cancel)
    /\ [][is_cancel => is_cancel']_vars
    /\ (ret.exc = "RuntimeTerminated") ~> Stopped
    /\ [](server = "stopped" => ret = NoRet /\ \A c \in CallIds : calls[c] = IdleCall)
    /\ [][server = "stopped" => server' = "stopped" /\ connections' = connections]_vars

\* A Call has just processed TERMINATE while a Data call was in flight.
C7_Witness ==
    /\ ret.exc = "RuntimeTerminated"
    /\ is_cancel
    /\ server = "serving"
    /\ \E c \in CallIds : calls[c].pc = "join"

\* C8: a Call whose Control batch holds TERMINATE hands the transport no
\* response message; it is neither logged nor re-raised as an error.
C8_TerminateNoResponse ==
    (ret.kind = "control" /\ HasTerminate(ret.batch))
    => /\ ret.outcome = "return_none"
       /\ ret.response = NoMsg
       /\ ~ret.logged
       /\ ret.exc = "RuntimeTerminated"

\* TERMINATE after a command that was applied.
C8_Witness ==
    /\ ret.kind = "control" /\ Len(ret.batch) = 2
    /\ ret.batch[1].command = "ACTIVATE"
    /\ ret.batch[2].command = "TERMINATE"
    /\ ret.outcome = "return_none"

\* C9: a Call that ends with any exception but RuntimeTerminated logs it and
\* re-raises it; the step leaves the cancel event and the server as they
\* were and starts nothing again for that call.
C9_FailureReraisedStillRunning ==
    [][(ret = NoRet /\ ret' # NoRet
          /\ ret'.exc \notin {None, "RuntimeTerminated"})
       => /\ ret'.outcome = "raise"
          /\ ret'.response = NoMsg
          /\ ret'.logged
          /\ is_cancel' = is_cancel
          /\ server' = "serving"
          /\ \A c \in CallIds :
                calls'[c] = calls[c] \/ calls'[c] = IdleCall]_vars

\* The zero-result RuntimeError was raised and the node still runs.
C9_Witness ==
    /\ ret.exc = "RuntimeError"
    /\ ret.outcome = "raise"
    /\ ~is_cancel
    /\ server = "serving"

\* C10 (as claimed): is_ready never raises; it returns False whenever the
\* send fails, whatever the failure, and True when the round trip succeeds.
C10_IsReadyNeverRaises ==
    ready.called
    => /\ ready.exc = None
       /\ ready.value = (ready.sent = None)

\* C10 (amended): is_ready returns False when the send fails with an
\* RpcError and True when the round trip succeeds; any other exception of
\* the send leaves is_ready.
C10_IsReadyCatchesRpcError ==
    ready.called
    => /\ ready.sent = "RpcError" => (ready.exc = None /\ ~ready.value)
       /\ ready.sent = None => (ready.exc = None /\ ready.value)
       /\ ready.sent \notin {None, "RpcError"} => ready.exc = ready.sent

C10_Witness ==
    /\ ready.called
    /\ ready.sent = "RpcError"
    /\ ready.exc = None
    /\ ~ready.value

\* C11 (as stated): with any numeric timeout, zero included, the wait never
\* goes to sleep for another poll once the timeout has elapsed.
C11_EveryNumericTimeoutEnds ==
    (wait.timeout # <<>> /\ wait.pc = "sleep")
    => wait.elapsed < wait.timeout[1]

\* C11 (amended): with a numeric timeout other than zero the wait polls at
\* most once per elapsed tick of the timeout and then ends (True, False or
\* the probe's own exception); it returns False only when such a timeout has
\* elapsed; with timeout None or zero it never returns False.
C11_NonZeroTimeoutEnds ==
    /\ [](/\ (wait.timeout # <<>> /\ wait.timeout # Some(0))
             => /\ wait.timeout_ns = wait.timeout
                /\ wait.polls <= wait.timeout[1]
                /\ wait.pc = "sleep" => wait.elapsed < wait.timeout[1]
          /\ (wait.timeout = <<>> \/ wait.timeout = Some(0))
             => /\ wait.timeout_ns = <<>>
                /\ ~(wait.pc = "returned" /\ ~wait.value)
          /\ (wait.pc = "returned" /\ ~wait.value)
             => /\ wait.elapsed >= wait.timeout[1]
                /\ wait.polls = wait.timeout[1])
    /\ (wait.pc = "loop" /\ wait.timeout # <<>> /\ wait.timeout # Some(0))
          ~> (wait.pc \in {"returned", "raised"})

C11_Witness ==
    /\ wait.pc = "returned"
    /\ ~wait.value
    /\ wait.timeout # <<>>
    /\ wait.polls = wait.timeout[1]
    /\ wait.polls >= 2
    /\ ~shutdown_event
    /\ target = "down"

\* C12: a poll returns True exactly when, at that poll, the shutdown event is
\* set or the probe succeeds; with the event set it returns True whatever the
\* probe would do; True is returned by a poll only, so never before the
\* first poll that sees a signal.
C12_TrueAtFirstSignal ==
    [][/\ wait'.polls = wait.polls + 1
          => /\ shutdown_event
                => (wait'.pc = "returned" /\ wait'.value)
             /\ (~shutdown_event /\ target = "up")
                => (wait'.pc = "returned" /\ wait'.value)
             /\ (wait'.pc = "returned" /\ wait'.value)
                => (shutdown_event \/ target = "up")
       /\ (wait.pc # "returned" /\ wait'.pc = "returned" /\ wait'.value)
          => wait'.polls = wait.polls + 1]_vars

C12_Witness ==
    /\ wait.pc = "returned"
    /\ wait.value
    /\ wait.polls = 3
    /\ wait.elapsed = 2
    /\ shutdown_event
    /\ target = "broken"

Unknown(msg) == msg.command \notin {"ACTIVATE", "DEACTIVATE", "TERMINATE"}

\* C13: a control message whose command is none of ACTIVATE, DEACTIVATE and
\* TERMINATE changes neither the pool nor the cancel flag nor the server and
\* does not fail the Call; as the last command of a batch it is the response,
\* and the pool is the one the other commands of the batch leave.
C13_UnknownCommandNoEffect ==
    [][(ret = NoRet /\ ret'.kind = "control")
       => LET batch == ret'.batch
              n == Len(batch)
          IN  /\ (\A i \in 1..n : Unknown(batch[i]))
                 => /\ connections' = connections
                    /\ is_cancel' = is_cancel
                    /\ server' = server
                    /\ ret'.exc = None
                    /\ ret'.outcome = "return"
                    /\ ret'.response = batch[n]
              /\ (Unknown(batch[n]) /\ ~HasTerminate(batch))
                 => /\ ret'.outcome = "return"
                    /\ ret'.response = batch[n]
                    /\ is_cancel' = is_cancel
                    /\ connections'
                         = ApplyInOrder(connections, SubSeq(batch, 1, n - 1))
              /\ (Unknown(batch[1]) /\ ~HasTerminate(batch))
                 => /\ ret'.outcome = "return"
                    /\ connections' = ApplyInOrder(connections, Tail(batch))
      ]_vars

\* ACTIVATE then an unknown command: the worker is registered and the
\* unknown command's message is the response.
C13_Witness ==
    /\ ret.kind = "control"
    /\ Len(ret.batch) = 2
    /\ ret.batch[1].command = "ACTIVATE"
    /\ Unknown(ret.batch[2])
    /\ ret.outcome = "return"
    /\ ret.response = ret.batch[2]
    /\ connections # ret.pre
    /\ ~is_cancel

\* The registration an entity stands for: its address and port under role
\* worker, with its shard id when it carries one.
EntityRegistration(e) ==
    Connection("worker", connection_string(e),
               IF e.has_shard_id THEN e.shard_id ELSE NoShard)

\* C14: DEACTIVATE(e) of an entity that is not registered as a worker
\* returns normally and leaves the worker set as it was.
C14_DeactivateUnregisteredNoEffect ==
    (/\ ret.kind = "control"
     /\ Len(ret.batch) = 1
     /\ ret.batch[1].command = "DEACTIVATE"
     /\ \A i \in 1..Len(ret.batch[1].relatedEntities) :
           EntityRegistration(ret.batch[1].relatedEntities[i]) \notin ret.pre)
    => /\ ret.outcome = "return"
       /\ ret.exc = None
       /\ Workers(connections) = Workers(ret.pre)

\* C15 (as stated): with exactly one reply collected the Call returns that
\* reply and makes no call to uses_after, whether or not uses_after is
\* configured.
C15_SingleReplyNeverUsesAfter ==
    (DataEnded /\ Cardinality(ret.tasks) = 1)
    => /\ ret.after_calls = <<>>
       /\ ret.outcome = "return"
       /\ \A t \in ret.tasks : ret.response = WorkerReply(t)

\* C15 (amended): uses_after is consulted whenever it is configured. With
\* exactly one reply collected and uses_after configured, that one reply is
\* sent to uses_after in one call and the answer of uses_after is the
\* response; only without uses_after is the reply itself returned, with no
\* call to uses_after.
C15_SingleReplyUsesAfterIfConfigured ==
    (DataEnded /\ Cardinality(ret.tasks) = 1)
    => \A t \in ret.tasks :
         /\ ret.worker_results = <<WorkerReply(t)>>
         /\ IF uses_after_address # NoAddress
            THEN /\ ret.after_calls = <<(<<WorkerReply(t)>>)>>
                 /\ ret.exc = None
                    => /\ ret.outcome = "return"
                       /\ ret.response = ret.after_reply
                       /\ ret.after_reply \in UsesAfterReplies
                 /\ ret.exc # None => ret.outcome = "raise"
            ELSE /\ ret.after_calls = <<>>
                 /\ ret.outcome = "return"
                 /\ ret.response = WorkerReply(t)

\* One worker answers with documents 1, 2; uses_after is configured, gets
\* that reply and answers with document 7, which is what the Call returns.
C15_Witness ==
    /\ DataEnded /\ Cardinality(ret.tasks) = 1
    /\ uses_after_address # NoAddress
    /\ ret.worker_results[1].docs = <<1, 2>>
    /\ ret.after_calls = <<ret.worker_results>>
    /\ ret.outcome = "return"
    /\ ret.response = DataMessage("uses_after", <<7>>)

\* What the pre-stage must have done for a Call with this batch that has
\* dispatched these messages after these calls to uses_before.
PreStaged(batch, messages, before_calls) ==
    IF uses_before_address # NoAddress
    THEN /\ before_calls = <<batch>>
         /\ messages = <<UsesBeforeReply(batch)>>
    ELSE /\ before_calls = <<>>
         /\ messages = batch

\* C16: with uses_before the whole batch goes to uses_before in one call,
\* nothing is dispatched to a worker while its reply is awaited, and the
\* workers get the batch of that one reply; without uses_before no such call
\* is made and the workers get the batch as it came in.
C16_PreStageBeforeFanOut ==
    /\ \A c \in CallIds :
         /\ calls[c].pc = "before"
            => /\ uses_before_address # NoAddress
               /\ calls[c].before_calls = <<calls[c].batch>>
               /\ calls[c].messages = <<>>
               /\ calls[c].tasks = {}
               /\ calls[c].pending = {}
               /\ calls[c].worker_results = <<>>
         /\ calls[c].pc \in {"join", "after"}
            => PreStaged(calls[c].batch, calls[c].messages,
                         calls[c].before_calls)
    /\ ret.kind = "data"
       => IF ret.messages = <<>>
          THEN /\ uses_before_address # NoAddress
               /\ ret.before_calls = <<ret.batch>>
               /\ ret.tasks = {}
               /\ ret.worker_results = <<>>
               /\ ret.exc = "RpcError"
          ELSE PreStaged(ret.batch, ret.messages, ret.before_calls)

\* A batch of two messages went to uses_before; its one reply is what the
\* workers, still at work, were sent.
C16_Witness ==
    /\ uses_before_address # NoAddress
    /\ calls["call"].pc = "join"
    /\ Len(calls["call"].batch) = 2
    /\ calls["call"].before_calls = <<calls["call"].batch>>
    /\ Len(calls["call"].messages) = 1
    /\ calls["call"].messages[1].docs = AllDocs(calls["call"].batch)
    /\ Cardinality(calls["call"].pending) = 2

\* The list holds the reply of each of these operations, each once.
HoldsEachOnce(worker_results, done) ==
    /\ Len(worker_results) = Cardinality(done)
    /\ { worker_results[i] : i \in 1..Len(worker_results) }
         = { WorkerReply(t) : t \in done }

\* C17: a Data Call goes on to uses_after, to the merge or to returning a
\* reply only when no dispatched operation is pending; the list it has then
\* holds the reply of every dispatched operation exactly once, and each
\* reply was put at the end of the list when its operation completed.
C17_ResponseAfterJoin ==
    /\ [](/\ \A c \in CallIds :
               /\ calls[c].pc = "join"
                  => /\ calls[c].pending # {}
                     /\ calls[c].pending \subseteq calls[c].tasks
                     /\ HoldsEachOnce(calls[c].worker_results,
                                      calls[c].tasks \ calls[c].pending)
               /\ calls[c].pc = "after"
                  => /\ calls[c].pending = {}
                     /\ HoldsEachOnce(calls[c].worker_results,
                                      calls[c].tasks)
          /\ (/\ ret.kind = "data"
              /\ \/ ret.outcome = "return"
                 \/ ret.after_calls # <<>>
                 \/ ret.exc = "RuntimeError")
             => /\ HoldsEachOnce(ret.worker_results, ret.tasks)
                /\ ret.after_calls # <<>>
                   => ret.after_calls = <<ret.worker_results>>)
    /\ [][\A c \in CallIds :
            (/\ calls[c].pc = "join"
             /\ calls'[c].pc \in {"join", "after"} \/ ret'.kind = "data")
            => LET old == calls[c].worker_results
                   new == IF calls'[c].pc \in {"join", "after"}
                          THEN calls'[c].worker_results
                          ELSE ret'.worker_results
               IN  \/ new = old
                   \/ \E t \in calls[c].pending :
                        /\ new = Append(old, WorkerReply(t))
                        /\ calls'[c].pc \in {"join", "after"}
                           => calls'[c].pending = calls[c].pending \ {t}
          ]_vars

\* Three operations were dispatched and the Call returned the local merge
\* of their three replies.
C17_Witness ==
    /\ ret.kind = "data"
    /\ ret.outcome = "return"
    /\ ret.after_calls = <<>>
    /\ Cardinality(ret.tasks) = 3
    /\ Len(ret.worker_results) = 3
    /\ ret.response.docs = RevConcatDocs(ret.worker_results)

Joining(slot) == slot.pc \in {"join", "after"}

\* C18: the operations a Data Call joins are those send_messages dispatched
\* from the pool as it was at the fan-out; a Control Call that runs while
\* the Data Call waits changes the pool but not the Data Call, whose results
\* are those of the operations dispatched; a later fan-out reads the pool as
\* it is then.
C18_JoinSetFixedAtDispatch ==
    [][/\ \A c \in CallIds :
            /\ (~Joining(calls[c]) /\ Joining(calls'[c]))
               => calls'[c].tasks \in send_messages(connections, polling)
            /\ (Joining(calls[c]) /\ Joining(calls'[c]))
               => calls'[c].tasks = calls[c].tasks
            /\ (Joining(calls[c]) /\ ~Joining(calls'[c]) /\ ret'.kind = "data")
               => /\ ret'.tasks = calls[c].tasks
                  /\ ret'.outcome = "return"
                     => HoldsEachOnce(ret'.worker_results, calls[c].tasks)
       /\ (ret = NoRet /\ ret'.kind = "control") => calls' = calls
      ]_vars

\* Two workers were dispatched to and both replies were collected and
\* merged, although the pool no longer holds the same workers when the
\* Call ends.
C18_Witness ==
    /\ ret.kind = "data"
    /\ ret.outcome = "return"
    /\ polling = "ALL"
    /\ Cardinality(ret.tasks) = 2
    /\ Len(ret.worker_results) = 2
    /\ Workers(connections) # ret.tasks
    /\ Cardinality(Workers(connections)) = 1

\* The registrations __init__ makes.
Seeded ==
    (IF uses_before_address # NoAddress
     THEN {Connection("uses_before", uses_before_address, NoShard)} ELSE {})
    \cup
    (IF uses_after_address # NoAddress
     THEN {Connection("uses_after", uses_after_address, NoShard)} ELSE {})

\* C19: the registrations under uses_before and uses_after are always those
\* made at construction; the pool changes only in a Control Call, and then
\* only under role worker; no step of a Data Call changes it.
C19_OnlyWorkersChange ==
    /\ [](connections \ Workers(connections) = Seeded)
    /\ [][/\ connections' # connections
             => /\ ret = NoRet
                /\ ret'.kind = "control"
                /\ \E i \in 1..Len(ret'.batch) :
                      ret'.batch[i].command \in {"ACTIVATE", "DEACTIVATE"}
          /\ (ret'.kind = "data" \/ calls' # calls)
             => connections' = connections
         ]_vars

\* With both stages configured, workers were activated and one deactivated
\* again, and a Data Call has just ended.
C19_Witness ==
    /\ uses_before_address # NoAddress
    /\ uses_after_address # NoAddress
    /\ ret.kind = "data"
    /\ ret.outcome = "return"
    /\ Cardinality(ret.tasks) = 3
    /\ Cardinality(Workers(connections)) = 2
    /\ connections \ Workers(connections) = Seeded

\* The position of the first TERMINATE of a batch that has one.
FirstTerminate(messages) ==
    CHOOSE k \in 1..Len(messages) :
        /\ messages[k].command = "TERMINATE"
        /\ \A i \in 1..(k - 1) : messages[i].command # "TERMINATE"

\* C20: of a Control batch with TERMINATE at position k, the commands before
\* k have been applied to the pool, in order, and stay applied when the Call
\* has ended; no command after k is processed.
C20_TerminateCutsBatch ==
    /\ []((ret.kind = "control" /\ HasTerminate(ret.batch))
          => LET k == FirstTerminate(ret.batch)
             IN  /\ ret.handled = [i \in 1..k |-> i]
                 /\ connections
                      = ApplyInOrder(ret.pre, SubSeq(ret.batch, 1, k - 1))
                 /\ ret.exc = "RuntimeTerminated"
                 /\ is_cancel)
    /\ [][(ret # NoRet /\ ret' = NoRet) => connections' = connections]_vars

\* ACTIVATE then TERMINATE: the worker ACTIVATE registered is in the pool
\* when the Call has ended.
C20_Witness ==
    /\ ret.kind = "control"
    /\ Len(ret.batch) = 2
    /\ ret.batch[1].command = "ACTIVATE"
    /\ ret.batch[2].command = "TERMINATE"
    /\ ret.handled = <<1, 2>>
    /\ ret.pre = Seeded
    /\ Cardinality(Workers(connections)) = 1

====
